---- MODULE Spec2Model ----
(***************************************************************************)
(* DexScreener new-token tracker: the seen-set tracked_pairs, one poll     *)
(* cycle (check_new_tokens) taken statement group by statement group, and  *)
(* the scheduling loop of main with its KeyboardInterrupt handler.         *)
(* Spec is the tracker under any provider; SpecFields is one poll over the  *)
(* shapes of a pair object and the threshold configurations; SpecLive is   *)
(* the loop while every fetch succeeds and nobody interrupts.              *)
(***************************************************************************)
EXTENDS Integers, Sequences, FiniteSets, TLC

(* ------------------------------ bounds --------------------------------- *)
MaxCycles == 3
MaxListing == 2
MaxCount == 12

(* ------------------------- program constants --------------------------- *)
MIN_LIQUIDITY_USD == 5000
MIN_TXNS_M5 == 10
\* BUY_SELL_RATIO_MIN = 0.1 is kept as the fraction RatioMinNum / RatioMinDen
RatioMinNum == 1
RatioMinDen == 10
BUY_SELL_RATIO_MAX == 10

\* the threshold constants of the module as one configuration
DefaultConfig ==
    [minLiq |-> MIN_LIQUIDITY_USD, minTxns |-> MIN_TXNS_M5,
     ratioMinNum |-> RatioMinNum, ratioMinDen |-> RatioMinDen,
     ratioMax |-> BUY_SELL_RATIO_MAX]

\* other values the constants may be edited to before startup
Configs ==
    { DefaultConfig,
      [minLiq |-> 0, minTxns |-> 0, ratioMinNum |-> 1, ratioMinDen |-> 2, ratioMax |-> 2],
      [minLiq |-> 10000, minTxns |-> 13, ratioMinNum |-> 1, ratioMinDen |-> 1, ratioMax |-> 1] }

(* --------------------------- provider data ----------------------------- *)
\* pair addresses the provider may list; NoAddr is a pair object without 'pairAddress'
Addrs == {"0xA", "0xB"}
NoAddr == "missing"
\* a .get() default applies when the key is absent
Absent == -1
\* liq = Absent: no 'liquidity' key; liq = NoUsd: a 'liquidity' object without 'usd'
NoUsd == -2
\* m5 = "notxns": no 'txns' key; "nom5": a 'txns' object without 'm5'; "m5": the
\* window is there and buys / sells are its counts, each possibly Absent

\* the market data of a pair object: Scenario A of the tests, and every optional key absent
Snapshots ==
    { [liq |-> 10000, m5 |-> "m5", buys |-> 20, sells |-> 15],
      [liq |-> Absent, m5 |-> "notxns", buys |-> Absent, sells |-> Absent] }

MkPair(a, b, s) ==
    [addr |-> a, base |-> b, liq |-> s.liq, m5 |-> s.m5, buys |-> s.buys, sells |-> s.sells]

AbsentSnap == [liq |-> Absent, m5 |-> "notxns", buys |-> Absent, sells |-> Absent]

\* market data over the whole range of shapes and counts, for one-pair listings
LiqValues == {Absent, NoUsd, 0, 1000, 4999, 5000, 10000}
CountValues == {Absent} \cup 0..MaxCount \cup {15, 20, 100}
FieldSnapshots ==
    {[liq |-> l, m5 |-> "m5", buys |-> b, sells |-> s] :
        l \in LiqValues, b \in CountValues, s \in CountValues}
    \cup {[liq |-> l, m5 |-> m, buys |-> Absent, sells |-> Absent] :
        l \in LiqValues, m \in {"notxns", "nom5"}}

\* pair objects of a response: no 'pairAddress'; no 'baseToken'; well formed
PairObjects ==
    {MkPair(NoAddr, TRUE, AbsentSnap)}
    \cup {MkPair(a, FALSE, AbsentSnap) : a \in Addrs}
    \cup {MkPair(a, TRUE, s) : a \in Addrs, s \in Snapshots}

RECURSIVE SeqsUpTo(_, _)
SeqsUpTo(S, n) ==
    IF n = 0 THEN {<<>>}
    ELSE LET shorter == SeqsUpTo(S, n - 1)
         IN  shorter \cup {Append(q, x) : q \in {r \in shorter : Len(r) = n - 1}, x \in S}

\* the value of response.json(): falsy, a dict without 'pairs', a dict with 'pairs'
NoResponse == [kind |-> "none", pairs |-> <<>>]
Responses ==
    {[kind |-> "empty", pairs |-> <<>>], [kind |-> "nofield", pairs |-> <<>>]}
    \cup {[kind |-> "listing", pairs |-> l] : l \in SeqsUpTo(PairObjects, MaxListing)}

\* responses that list one well-formed pair, over FieldSnapshots
FieldResponses ==
    {[kind |-> "listing", pairs |-> <<MkPair(a, TRUE, s)>>] :
        a \in Addrs, s \in FieldSnapshots}

(* ----------------------------- exceptions ------------------------------ *)
\* what requests.get / raise_for_status / response.json can raise; response.json
\* raises requests' JSONDecodeError or a plain ValueError depending on the version
RequestExceptions == {"ConnectionError", "Timeout", "HTTPError", "JSONDecodeError"}
FetchErrors == RequestExceptions \cup {"ValueError"}
KeyboardInterrupt == "KeyboardInterrupt"

\* the two except clauses of check_new_tokens; KeyboardInterrupt derives from BaseException
Caught_OnlyRequest(e) == e \in RequestExceptions
Caught_NoHandler(e) == FALSE
Caught(e) == e # KeyboardInterrupt

HandlerOutcome(e) == IF e \in RequestExceptions THEN "fetcherror" ELSE "unexpected"

\* where main continues when an exception leaves check_new_tokens or time.sleep:
\* the initial check is outside the try block, the loop is inside it
MainAfter(p, e) ==
    IF p \in {"sleeping", "polling"} /\ e = KeyboardInterrupt THEN "stopped" ELSE "crashed"

(* ------------------------------- state --------------------------------- *)
VARIABLES
    pc,             \* main: "initial", "sleeping", "polling", "stopped", "crashed"
    cpc,            \* check_new_tokens: "idle", "fetch", "check", "loop", "extract"
    data,           \* the parsed response of the last fetch
    idx,            \* position of the for loop in data.pairs
    tracked_pairs,  \* the seen-set
    result,         \* reports printed in the current cycle, in order
    reportCount,    \* reports printed per pair address in the process lifetime
    outcome,        \* how the last cycle ended
    raised,         \* the last exception raised in the current cycle, or "none"
    startTracked,   \* tracked_pairs at the start of the current cycle
    repeat,         \* the current listing equals the previous cycle's listing
    prevResult,     \* result of the previous cycle
    prevStart,      \* startTracked of the previous cycle
    cycles,         \* poll cycles started
    config          \* the threshold constants, fixed at startup

vars == <<pc, cpc, data, idx, tracked_pairs, result, reportCount, outcome, raised,
          startTracked, repeat, prevResult, prevStart, cycles, config>>

Running == pc \in {"initial", "polling"}

(* ------------------------------ the pair ------------------------------- *)
Get_NoDefault(v, default) == v
Get(v, default) == IF v = Absent THEN default ELSE v

Seen_Never(a, tp) == FALSE
Seen(a, tp) == a \in tp

AddPair_Replace(tp, a) == {a}
AddPair_Skip(tp, a) == tp
AddPair(tp, a) == tp \cup {a}

\* the condition of the early return
NoNewPairs_NoFieldCheck(d) == d.kind = "empty" \/ (d.kind = "listing" /\ d.pairs = <<>>)
NoNewPairs(d) ==
    d.kind = "empty" \/ d.kind = "nofield" \/ (d.kind = "listing" /\ d.pairs = <<>>)

\* pair.get('liquidity', {}).get('usd', 0)
LiquidityUsd(p) == Get(IF p.liq = NoUsd THEN Absent ELSE p.liq, 0)

\* pair.get('txns', {}).get('m5', {'buys': 0, 'sells': 0})
TxnsM5(p) ==
    IF p.m5 = "m5" THEN [buys |-> p.buys, sells |-> p.sells] ELSE [buys |-> 0, sells |-> 0]

\* buy_sell_ratio as the fraction num / den; den = 0 is a division by zero
BuySellRatio_Unguarded(b, s) == [num |-> b, den |-> s]
BuySellRatio(b, s) ==
    IF s > 0 THEN [num |-> b, den |-> s]
    ELSE IF b > 0 THEN [num |-> b, den |-> 1]
    ELSE [num |-> 1, den |-> 1]

\* BUY_SELL_RATIO_MIN <= buy_sell_ratio <= BUY_SELL_RATIO_MAX, on the fractions
RatioInRange(b, s) ==
    LET r == BuySellRatio(b, s)
    IN  /\ r.num * config.ratioMinDen >= config.ratioMinNum * r.den
        /\ r.num <= config.ratioMax * r.den

Reasons_ShortCircuit(liq, b, s) ==
    IF liq < config.minLiq THEN <<"liquidity">>
    ELSE IF b + s < config.minTxns THEN <<"volume">>
    ELSE IF ~RatioInRange(b, s) THEN <<"ratio">>
    ELSE <<>>
Reasons(liq, b, s) ==
    (IF liq < config.minLiq THEN <<"liquidity">> ELSE <<>>)
    \o (IF b + s < config.minTxns THEN <<"volume">> ELSE <<>>)
    \o (IF ~RatioInRange(b, s) THEN <<"ratio">> ELSE <<>>)

\* the printed report of one new pair
Report_SeenDependent(p) ==
    LET liq == LiquidityUsd(p)
        b == Get(TxnsM5(p).buys, 0)
        s == Get(TxnsM5(p).sells, 0)
        rs == IF Cardinality(tracked_pairs) > 1 THEN <<"liquidity">> ELSE Reasons(liq, b, s)
    IN  [addr |-> p.addr, liq |-> liq, buys |-> b, sells |-> s,
         ratio |-> BuySellRatio(b, s), trustworthy |-> (rs = <<>>), reasons |-> rs]
Report(p) ==
    LET liq == LiquidityUsd(p)
        b == Get(TxnsM5(p).buys, 0)
        s == Get(TxnsM5(p).sells, 0)
        rs == Reasons(liq, b, s)
    IN  [addr |-> p.addr, liq |-> liq, buys |-> b, sells |-> s,
         ratio |-> BuySellRatio(b, s), trustworthy |-> (rs = <<>>), reasons |-> rs]

\* the reports are printed one after the other
Emit_Front(r, x) == <<x>> \o r
Emit(r, x) == Append(r, x)

InitWith(c) ==
    /\ config = c
    /\ pc = "initial"
    /\ cpc = "fetch"
    /\ data = NoResponse
    /\ idx = 0
    /\ tracked_pairs = {}
    /\ result = <<>>
    /\ reportCount = [a \in Addrs |-> 0]
    /\ outcome = "running"
    /\ raised = "none"
    /\ startTracked = {}
    /\ repeat = FALSE
    /\ prevResult = <<>>
    /\ prevStart = {}
    /\ cycles = 1

Init == InitWith(DefaultConfig)

\* an exception e raised inside check_new_tokens
Raise(e) ==
    /\ raised' = e
    /\ cpc' = "idle"
    /\ IF Caught(e)
       THEN outcome' = HandlerOutcome(e) /\ pc' = "sleeping"
       ELSE outcome' = "escaped" /\ pc' = MainAfter(pc, e)

\* check_new_tokens returns to main, which goes to time.sleep
Return(o) ==
    /\ outcome' = o
    /\ cpc' = "idle"
    /\ pc' = "sleeping"
    /\ raised' = raised

\* time.sleep is over: the next check_new_tokens call starts
Sleep ==
    /\ pc = "sleeping"
    /\ cycles < MaxCycles
    /\ pc' = "polling"
    /\ cpc' = "fetch"
    /\ cycles' = cycles + 1
    /\ idx' = 0
    /\ result' = <<>>
    /\ outcome' = "running"
    /\ raised' = "none"
    /\ startTracked' = tracked_pairs
    /\ prevResult' = result
    /\ prevStart' = startTracked
    /\ repeat' = FALSE
    /\ UNCHANGED <<data, tracked_pairs, reportCount, config>>

\* requests.get, raise_for_status or response.json raises
FetchFail ==
    /\ Running /\ cpc = "fetch"
    /\ \E e \in FetchErrors : Raise(e)
    /\ data' = NoResponse
    /\ UNCHANGED <<idx, tracked_pairs, result, reportCount, startTracked, repeat,
                   prevResult, prevStart, cycles, config>>

\* the fetch succeeds with a parsed body, one of R
FetchFrom(R) ==
    /\ Running /\ cpc = "fetch"
    /\ \E d \in R :
        /\ data' = d
        /\ repeat' = (cycles > 1 /\ d.kind = "listing" /\ d = data)
    /\ cpc' = "check"
    /\ UNCHANGED <<pc, idx, tracked_pairs, result, reportCount, outcome, raised,
                   startTracked, prevResult, prevStart, cycles, config>>

FetchOk == FetchFrom(Responses)

\* the early return on an empty response
CheckData ==
    /\ Running /\ cpc = "check"
    /\ IF NoNewPairs(data)
       THEN Return("nopairs") /\ idx' = idx
       ELSE IF data.kind = "nofield"
       THEN Raise("KeyError") /\ idx' = idx
       ELSE /\ cpc' = "loop"
            /\ idx' = 1
            /\ UNCHANGED <<pc, outcome, raised>>
    /\ UNCHANGED <<data, tracked_pairs, result, reportCount, startTracked, repeat,
                   prevResult, prevStart, cycles, config>>

\* the head of the for loop up to tracked_pairs.add
LoopHead ==
    /\ Running /\ cpc = "loop"
    /\ IF idx > Len(data.pairs)
       THEN Return("done") /\ UNCHANGED <<idx, tracked_pairs>>
       ELSE LET pair == data.pairs[idx]
            IN  IF pair.addr = NoAddr
                THEN Raise("KeyError") /\ UNCHANGED <<idx, tracked_pairs>>
                ELSE IF Seen(pair.addr, tracked_pairs)
                THEN /\ idx' = idx + 1
                     /\ UNCHANGED <<pc, cpc, outcome, raised, tracked_pairs>>
                ELSE /\ tracked_pairs' = AddPair(tracked_pairs, pair.addr)
                     /\ cpc' = "extract"
                     /\ UNCHANGED <<pc, idx, outcome, raised>>
    /\ UNCHANGED <<data, result, reportCount, startTracked, repeat, prevResult,
                   prevStart, cycles, config>>

\* field extraction, classification and the printed report of the new pair
Extract ==
    /\ Running /\ cpc = "extract"
    /\ LET pair == data.pairs[idx]
       IN  IF ~pair.base
           THEN /\ Raise("KeyError")
                /\ UNCHANGED <<idx, result, reportCount>>
           ELSE IF Report(pair).ratio.den = 0
           THEN /\ Raise("ZeroDivisionError")
                /\ UNCHANGED <<idx, result, reportCount>>
           ELSE /\ result' = Emit(result, Report(pair))
                /\ reportCount' = [reportCount EXCEPT ![pair.addr] = @ + 1]
                /\ idx' = idx + 1
                /\ cpc' = "loop"
                /\ UNCHANGED <<pc, outcome, raised>>
    /\ UNCHANGED <<data, tracked_pairs, startTracked, repeat, prevResult, prevStart,
                   cycles, config>>

\* Ctrl+C: KeyboardInterrupt is raised at the statement being executed
Interrupt ==
    /\ pc \in {"initial", "sleeping", "polling"}
    /\ IF cpc = "idle"
       THEN /\ raised' = KeyboardInterrupt
            /\ pc' = MainAfter(pc, KeyboardInterrupt)
            /\ UNCHANGED <<cpc, outcome>>
       ELSE Raise(KeyboardInterrupt)
    /\ UNCHANGED <<data, idx, tracked_pairs, result, reportCount, startTracked, repeat,
                   prevResult, prevStart, cycles, config>>

Next ==
    \/ Sleep
    \/ FetchFail
    \/ FetchOk
    \/ CheckData
    \/ LoopHead
    \/ Extract
    \/ Interrupt

Spec == Init /\ [][Next]_vars

(* ------------- the loop while the provider keeps listing a pair --------- *)
\* every fetch succeeds with a listing that holds the well-formed pair Target;
\* nobody interrupts; the cycle counter stops counting at MaxCycles
Target == "0xB"

LiveResponses ==
    {d \in Responses :
        \E i \in DOMAIN d.pairs : d.pairs[i].addr = Target /\ d.pairs[i].base}

FetchLive == FetchFrom(LiveResponses)

SleepLive ==
    /\ pc = "sleeping"
    /\ pc' = "polling"
    /\ cpc' = "fetch"
    /\ cycles' = IF cycles < MaxCycles THEN cycles + 1 ELSE cycles
    /\ idx' = 0
    /\ result' = <<>>
    /\ outcome' = "running"
    /\ raised' = "none"
    /\ startTracked' = tracked_pairs
    /\ prevResult' = result
    /\ prevStart' = startTracked
    /\ repeat' = FALSE
    /\ UNCHANGED <<data, tracked_pairs, reportCount, config>>

NextLive ==
    \/ SleepLive
    \/ FetchLive
    \/ CheckData
    \/ LoopHead
    \/ Extract

\* main is one thread that never blocks for good: time.sleep returns, the fetch
\* returns within its timeout, every statement is followed by the next
SpecLive == Init /\ [][NextLive]_vars /\ WF_vars(NextLive)

(* ---------------- one poll over the shapes of a pair object ------------- *)
\* the constants at any of Configs, and a fetch that lists one well-formed pair
\* whose market data ranges over FieldSnapshots
InitFields == \E c \in Configs : InitWith(c)

FetchFields == FetchFrom(FieldResponses)

NextFields ==
    \/ FetchFields
    \/ CheckData
    \/ LoopHead
    \/ Extract

SpecFields == InitFields /\ [][NextFields]_vars

(* ======================= properties of the tracker ===================== *)
\* a finished cycle: check_new_tokens is not on the stack
CycleOver == cpc = "idle"
\* a cycle boundary of the live process: main is in time.sleep
CycleBoundary == pc = "sleeping" /\ cpc = "idle"
WellFormed(p) == p.addr # NoAddr /\ p.base
Malformed(p) == ~WellFormed(p)
ResultAddrs(r) == [k \in DOMAIN r |-> r[k].addr]
SeqRange(q) == {q[k] : k \in DOMAIN q}

\* the addresses among the first n entries of a listing that are not in seen,
\* each once, in listing order
RECURSIVE NewAmong(_, _, _)
NewAmong(pairs, n, seen) ==
    IF n = 0 THEN <<>>
    ELSE LET before == NewAmong(pairs, n - 1, seen)
             a == pairs[n].addr
         IN  IF a \in seen \/ a \in SeqRange(before) THEN before ELSE Append(before, a)

\* C1: a pair address is reported at most once in the process lifetime; a cycle
\* reports no address that was in tracked_pairs when the cycle started, and no
\* address twice.
C1_AtMostOneVerdict ==
    /\ \A a \in Addrs : reportCount[a] <= 1
    /\ \A k \in DOMAIN result : result[k].addr \notin startTracked
    /\ \A j, k \in DOMAIN result : result[j].addr = result[k].addr => j = k

\* a later cycle has run to its end over a listing that names an already reported
\* address twice, the second time with other field values than were reported
C1_Witness ==
    /\ CycleOver /\ outcome = "done" /\ cycles >= 2
    /\ Len(data.pairs) = 2
    /\ data.pairs[1].addr = data.pairs[2].addr
    /\ WellFormed(data.pairs[1]) /\ WellFormed(data.pairs[2])
    /\ data.pairs[1].addr \in startTracked
    /\ reportCount[data.pairs[1].addr] = 1
    /\ \E k \in DOMAIN prevResult :
          /\ prevResult[k].addr = data.pairs[2].addr
          /\ prevResult[k].liq # Get(data.pairs[2].liq, 0)
    /\ result = <<>>

\* C2: a cycle whose fetch raised (connection, timeout, HTTP status, body parse)
\* prints no report, leaves tracked_pairs as it was at the start of the cycle, and
\* is ended by one of the except clauses, so main goes on to time.sleep.
C2_FetchFailureContained ==
    (CycleOver /\ raised \in FetchErrors) =>
        /\ result = <<>>
        /\ tracked_pairs = startTracked
        /\ outcome \in {"fetcherror", "unexpected"}
        /\ pc = "sleeping"

\* a fetch timed out in a cycle that started with a non-empty seen-set
C2_Witness ==
    /\ CycleOver /\ raised = "Timeout" /\ cycles >= 2
    /\ tracked_pairs # {} /\ tracked_pairs = startTracked

C4_AnomalySkipped ==
    (CycleOver /\ raised # KeyboardInterrupt /\ data.kind = "listing") =>
        \A i, j \in DOMAIN data.pairs :
            (i < j /\ Malformed(data.pairs[i]) /\ WellFormed(data.pairs[j])
                /\ data.pairs[j].addr \notin startTracked)
            => data.pairs[j].addr \in SeqRange(ResultAddrs(result))

\* C5: at every cycle boundary each address in tracked_pairs has been reported.
C5_SeenImpliesReported ==
    CycleBoundary => \A a \in tracked_pairs : reportCount[a] >= 1

\* C6: when two consecutive cycles fetched the identical listing, and the listing
\* holds a well-formed pair that was unseen before the first of them, the first
\* cycle reported something and the second reported nothing.
C6_SecondPollEmpty ==
    (CycleBoundary /\ repeat /\ outcome # "running"
        /\ \E i \in DOMAIN data.pairs :
              WellFormed(data.pairs[i]) /\ data.pairs[i].addr \notin prevStart)
    => (prevResult # <<>> /\ result = <<>>)

\* C7: a cycle that ends without a KeyboardInterrupt leaves main in time.sleep, the
\* next step of the loop, and main leaves the loop only on a KeyboardInterrupt.
C7_LoopSurvives ==
    [][/\ (cpc # "idle" /\ cpc' = "idle" /\ raised' # KeyboardInterrupt) => pc' = "sleeping"
       /\ (pc' \in {"stopped", "crashed"} /\ pc \notin {"stopped", "crashed"})
             => raised' = KeyboardInterrupt]_vars

\* a cycle of the loop ended in the generic except clause and main is sleeping
C7_Witness ==
    /\ CycleBoundary /\ cycles >= 2 /\ outcome = "unexpected" /\ raised = "KeyError"

\* C8: after a KeyboardInterrupt the process has stopped with success status.
C8_InterruptExitsCleanly ==
    raised = KeyboardInterrupt => pc = "stopped"

\* C9: no step removes an address from tracked_pairs.
C9_SeenSetMonotone ==
    [][tracked_pairs \subseteq tracked_pairs']_vars

\* every address is tracked and a later cycle failed at the fetch
C9_Witness ==
    /\ CycleOver /\ outcome = "fetcherror" /\ cycles >= 2
    /\ tracked_pairs = Addrs

\* C10: a cycle that fetched a falsy body, a body without 'pairs' or an empty
\* listing, and that no interrupt ended, took the early return: no report, no
\* except clause, tracked_pairs as at the start of the cycle, main in time.sleep.
C10_EmptyResponseIsNormal ==
    (/\ CycleOver /\ raised # KeyboardInterrupt
     /\ \/ data.kind \in {"empty", "nofield"}
        \/ (data.kind = "listing" /\ data.pairs = <<>>))
    => /\ outcome = "nopairs"
       /\ raised = "none"
       /\ result = <<>>
       /\ tracked_pairs = startTracked
       /\ pc = "sleeping"

\* a body without 'pairs' arrived in a cycle that started with a non-empty seen-set
C10_Witness ==
    /\ CycleOver /\ data.kind = "nofield" /\ outcome = "nopairs"
    /\ tracked_pairs # {} /\ tracked_pairs = startTracked


\* a reason of the report r
HasReason(r, x) == \E i \in DOMAIN r.reasons : r.reasons[i] = x
\* the fraction q lies outside [ratioMinNum / ratioMinDen, ratioMax] (q.den > 0)
RatioOutside(q, c) ==
    \/ q.num * c.ratioMinDen < c.ratioMinNum * q.den
    \/ q.num > c.ratioMax * q.den

\* C11: in every report, under every configuration, the liquidity reason is there
\* iff liquidity < minimum, the volume reason iff buys + sells < minimum count, the
\* ratio reason iff the ratio is outside [min, max]; the reasons are those of
\* <<liquidity, volume, ratio>> whose check failed, in that order, and the pair is
\* trustworthy iff there is none.
C11_ReasonsIffChecksFail ==
    \A k \in DOMAIN result :
        LET r == result[k]
            Failed(x) == HasReason(r, x)
        IN  /\ HasReason(r, "liquidity") <=> (r.liq < config.minLiq)
            /\ HasReason(r, "volume") <=> (r.buys + r.sells < config.minTxns)
            /\ HasReason(r, "ratio") <=> RatioOutside(r.ratio, config)
            /\ r.reasons = SelectSeq(<<"liquidity", "volume", "ratio">>, Failed)
            /\ r.trustworthy <=> (r.reasons = <<>>)

\* Scenario B: liquidity 1000, buys 5, sells 2 at the default thresholds fails the
\* liquidity and the volume check and passes the ratio check
C11_Witness ==
    /\ config = DefaultConfig
    /\ Len(result) = 1
    /\ result[1].liq = 1000 /\ result[1].buys = 5 /\ result[1].sells = 2
    /\ result[1].reasons = <<"liquidity", "volume">>
    /\ ~result[1].trustworthy

\* C12: the ratio of every report is buys / sells when sells > 0, buys when
\* sells = 0 and buys > 0, 1 when both are 0; its denominator is never 0 and no
\* cycle ends in a ZeroDivisionError.
C12_RatioCases ==
    /\ raised # "ZeroDivisionError"
    /\ CycleOver => Len(result) = 1
    /\ \A k \in DOMAIN result :
        LET r == result[k]
            q == r.ratio
        IN  /\ q.den > 0
            /\ r.sells > 0 => q.num * r.sells = r.buys * q.den
            /\ (r.sells = 0 /\ r.buys > 0) => q.num = r.buys * q.den
            /\ (r.sells = 0 /\ r.buys = 0) => q.num = q.den

\* a pair with buys and no sells has been reported
C12_Witness ==
    /\ CycleOver /\ Len(result) = 1
    /\ result[1].sells = 0 /\ result[1].buys = 7
    /\ result[1].ratio.num = 7 * result[1].ratio.den


\* C13: the reports of a cycle are the addresses of the listing that were not in
\* tracked_pairs at the start of the cycle, each once, in the order of the listing:
\* while the loop runs this holds of the part of the listing already processed,
\* and each report is the one of the first pair object with its address.
C13_ListingOrder ==
    (data.kind = "listing" /\ (cpc = "loop" \/ (CycleOver /\ outcome = "done"))) =>
        /\ ResultAddrs(result) = NewAmong(data.pairs, idx - 1, startTracked)
        /\ \A k \in DOMAIN result :
              \E i \in DOMAIN data.pairs :
                  /\ result[k] = Report(data.pairs[i])
                  /\ \A j \in 1..(i - 1) : data.pairs[j].addr # result[k].addr

\* a cycle reported 0xB and then 0xA, as the listing had them
C13_Witness ==
    /\ CycleOver /\ outcome = "done" /\ cycles >= 2
    /\ Len(data.pairs) = 2
    /\ data.pairs[1].addr = "0xB" /\ data.pairs[2].addr = "0xA"
    /\ ResultAddrs(result) = <<"0xB", "0xA">>

\* C14: a well-formed new pair whose 'liquidity', 'usd', 'txns', 'm5', 'buys' or
\* 'sells' is absent is reported with 0 for each absent value and with the listed
\* value otherwise, and the cycle ends normally with that one report.
C14_AbsentFieldsDefault ==
    /\ CycleOver => (outcome = "done" /\ raised = "none" /\ Len(result) = 1)
    /\ result # <<>> =>
        LET p == data.pairs[1]
            r == result[1]
        IN  /\ r.addr = p.addr
            /\ r.liq = (IF p.liq \in {Absent, NoUsd} THEN 0 ELSE p.liq)
            /\ r.buys = (IF p.m5 # "m5" \/ p.buys = Absent THEN 0 ELSE p.buys)
            /\ r.sells = (IF p.m5 # "m5" \/ p.sells = Absent THEN 0 ELSE p.sells)

\* a pair with a 'liquidity' object without 'usd' and an 'm5' window without 'buys'
\* has been reported with liquidity 0, buys 0 and its 3 sells
C14_Witness ==
    /\ CycleOver /\ outcome = "done" /\ Len(result) = 1
    /\ data.pairs[1].liq = NoUsd /\ data.pairs[1].m5 = "m5"
    /\ data.pairs[1].buys = Absent /\ data.pairs[1].sells = 3
    /\ result[1].liq = 0 /\ result[1].buys = 0 /\ result[1].sells = 3


\* C15, for the interrupt that stops the loop during a poll whose listing holds
\* well-formed pairs only: every address the interrupted cycle added to
\* tracked_pairs has its report among the reports of that cycle.
C15_NoHalfAddedPair ==
    (/\ pc = "stopped" /\ outcome = "escaped" /\ data.kind = "listing"
     /\ \A i \in DOMAIN data.pairs : WellFormed(data.pairs[i]))
    => (tracked_pairs \ startTracked) \subseteq SeqRange(ResultAddrs(result))

\* the reports printed so far in this cycle and in the one before it
RecentReports == SeqRange(result) \cup SeqRange(prevResult)
SameSnapshot(r1, r2) == r1.liq = r2.liq /\ r1.buys = r2.buys /\ r1.sells = r2.sells
VerdictsAgree ==
    \A r1, r2 \in RecentReports :
        SameSnapshot(r1, r2) =>
            (r1.trustworthy = r2.trustworthy /\ r1.reasons = r2.reasons /\ r1.ratio = r2.ratio)

C17_EventuallyReportedOnce ==
    <>[](reportCount[Target] = 1)

====
